---- MODULE Spec2Model ----
(***************************************************************************)
(* logkit: the streaming event source (iter_events), the timestamp parser  *)
(* (parse_ts) and the two aggregators (count_by_level, top_src_ips) of     *)
(* src/logkit/parser.py.                                                   *)
(*                                                                         *)
(* Python strings are sequences of tokens (a token is an atomic chunk of   *)
(* characters), so the empty string is <<>>, lower() and the substring     *)
(* test work token by token, and None is a value no string equals.         *)
(***************************************************************************)
EXTENDS Integers, Sequences, FiniteSets, TLC

\* ------------------------------------------------------------------ bounds
MaxLines == 3
MaxEvents == 4
MaxN == 3

\* ------------------------------------------------------- python primitives
None == <<"NoneType">>
EmptyStr == <<>>

\* truth value of an Optional[str]: None and "" are both falsy
Truthy(s) == s # None /\ s # EmptyStr

lowerTok(c) == IF c = "A" THEN "a" ELSE IF c = "B" THEN "b" ELSE c

\* str.lower()
lower(s) == [i \in 1..Len(s) |-> lowerTok(s[i])]

\* the substring test `needle in hay`
In(ndl, hay) ==
    \E i \in 0..(Len(hay) - Len(ndl)) : SubSeq(hay, i + 1, i + Len(ndl)) = ndl

\* str.endswith("Z")
endswithZ(s) == Len(s) > 0 /\ s[Len(s)] = "Z"

\* ------------------------------------------------------------- timestamps
\* wall-clock part and UTC offset of an ISO-8601 text, in ticks
WallClock(tok) == CASE tok = "T1" -> 1 [] tok = "T2" -> 2 [] tok = "T3" -> 3 [] OTHER -> 0
WallToks == {"T1", "T2", "T3"}
UtcOffset(tok) == CASE tok = "+00:00" -> 0 [] tok = "+01:00" -> 1 [] OTHER -> 0
OffsetToks == {"+00:00", "+01:00"}

\* datetime.fromisoformat: accepts <wall clock><offset>, anything else raises
isoformat_ok(s) == Len(s) = 2 /\ s[1] \in WallToks /\ s[2] \in OffsetToks

\* parse_ts: trailing Z becomes +00:00, then fromisoformat, then astimezone(utc)
parse_ts(ts) ==
    LET ts1 == IF endswithZ(ts) THEN SubSeq(ts, 1, Len(ts) - 1) \o <<"+00:00">> ELSE ts
    IN  IF isoformat_ok(ts1)
        THEN [ok |-> TRUE, dt |-> WallClock(ts1[1]) - UtcOffset(ts1[2])]
        ELSE [ok |-> FALSE, dt |-> 0]

\* Optional[datetime]: <<>> is None, <<t>> is the instant t (always truthy)
NoDt == <<>>

\* ------------------------------------------------------------ JSON values
\* a member of a decoded object: <<tag, text>>
Absent == <<"absent", <<>>>>
JNull == <<"null", <<>>>>
JStr(s) == <<"str", s>>
JNum(s) == <<"num", s>>

\* str(value): a str is itself, None renders as "None", a number as its digits
str(v) == IF v[1] = "null" THEN <<"N", "o", "n", "e">> ELSE v[2]

\* obj.get(key, default)
get(obj, key, default) == IF obj[key] = Absent THEN JStr(default) ELSE obj[key]

UNKNOWN == <<"UNKNOWN">>
INFO == <<"INFO">>
WARN == <<"WARN">>
Ip1 == <<"10.0.0.5">>
Ip2 == <<"10.0.0.8">>

\* Event(ts=..., level=..., msg=..., src_ip=...)
Event(obj) ==
    [ts |-> str(get(obj, "ts", EmptyStr)),
     level |-> str(get(obj, "level", UNKNOWN)),
     msg |-> str(get(obj, "msg", EmptyStr)),
     src_ip |-> str(get(obj, "src_ip", EmptyStr))]

NoEvent == [ts |-> EmptyStr, level |-> EmptyStr, msg |-> EmptyStr, src_ip |-> EmptyStr]

\* --------------------------------------------------------------- the file
\* a physical line: what strip() and json.loads make of it
\*   blank  : empty after strip()
\*   bad    : json.loads raises JSONDecodeError
\*   scalar : valid JSON that is not an object (array, number, string, ...)
\*   object : a JSON object with the members obj
NoObj == [ts |-> Absent, level |-> Absent, msg |-> Absent, src_ip |-> Absent]
BlankLine == [kind |-> "blank", obj |-> NoObj]
BadLine == [kind |-> "bad", obj |-> NoObj]
ScalarLine == [kind |-> "scalar", obj |-> NoObj]
ObjLine(o) == [kind |-> "object", obj |-> o]

Objects ==
    { NoObj,
      [ts |-> JNull, level |-> JNum(<<"5">>), msg |-> JNull, src_ip |-> Absent],
      [ts |-> JStr(<<"T1", "Z">>), level |-> JStr(INFO), msg |-> JStr(<<"b", "A">>), src_ip |-> JStr(Ip1)],
      [ts |-> JStr(<<"T3", "+01:00">>), level |-> JStr(WARN), msg |-> JStr(<<"b">>), src_ip |-> JStr(Ip2)],
      [ts |-> JStr(<<"T3", "Z">>), level |-> JStr(INFO), msg |-> JStr(<<"b">>), src_ip |-> JStr(Ip2)] }

Lines == {BlankLine, BadLine, ScalarLine} \cup {ObjLine(o) : o \in Objects}

Files == UNION {[1..k -> Lines] : k \in 0..MaxLines}

\* the since / until arguments
SinceArgs == {None, EmptyStr, <<"T2", "Z">>, <<"g">>}
UntilArgs == {None, EmptyStr, <<"T2", "Z">>, <<"g">>}

\* ------------------------------------------------------------------ state
VARIABLES
    file,       \* the lines of the file at path
    strict,     \* iter_events argument
    since,      \* iter_events argument (Optional[str])
    until,      \* iter_events argument (Optional[str])
    pc,         \* generator position: created, running, suspended, done, failed, closed
    since_dt,   \* parsed since (NoDt is None)
    until_dt,   \* parsed until
    line_no,    \* enumerate(f, start=1) counter of the line last read (0: none yet)
    handle,     \* the file object: none, open, closed
    opens,      \* number of successful open() calls of the pass
    pulls,      \* number of next() calls the consumer has made
    out,        \* what the consumer received: <<[line_no, ev], ...>>
    error,      \* the exception that ended the pass
    events,     \* aggregator input (an already materialised Event list)
    call,       \* the aggregator call last made
    result      \* what that call produced

vars == <<file, strict, since, until, pc, since_dt, until_dt, line_no, handle,
          opens, pulls, out, error, events, call, result>>

streamVars == <<file, strict, since, until, pc, since_dt, until_dt, line_no,
                handle, opens, pulls, out, error>>
aggVars == <<events, call, result>>

NoError == [kind |-> "none", line |-> 0]
NoCall == [fn |-> "none", src_ip |-> None, contains |-> None, n |-> 0]
NoResult == [raised |-> FALSE, value |-> <<>>, counts |-> <<>>]

\* ------------------------------------------------------------ iter_events
Continue == [act |-> "continue", ev |-> NoEvent, error |-> NoError]
Yield(ev) == [act |-> "yield", ev |-> ev, error |-> NoError]
Raise(kind, n) == [act |-> "raise", ev |-> NoEvent, error |-> [kind |-> kind, line |-> n]]

\* faulty variant: the line counter starts at 0 (enumerate without start=1)
on_JSONDecodeError_from_zero(strict_, n) ==
    IF strict_ THEN Raise("BadJSON", n - 1) ELSE Continue

\* except json.JSONDecodeError: raise ValueError("Bad JSON on line N") when
\* strict, else skip the line
on_JSONDecodeError(strict_, n) ==
    IF strict_ THEN Raise("BadJSON", n) ELSE Continue

\* faulty variant: the bounds exclude the instant they name
in_range_exclusive(ev_ts, sdt, udt) ==
    /\ ~(sdt # NoDt /\ ev_ts <= sdt[1])
    /\ ~(udt # NoDt /\ ev_ts >= udt[1])

\* the comparisons against the two bounds: TRUE when the event is kept
in_range(ev_ts, sdt, udt) ==
    /\ ~(sdt # NoDt /\ ev_ts < sdt[1])
    /\ ~(udt # NoDt /\ ev_ts > udt[1])

\* faulty variant: the except clause catches ValueError, so lenient mode skips the
\* event
on_ts_ValueError_caught(strict_, n) ==
    IF strict_ THEN Raise("InvalidTimestamp", n) ELSE Continue

\* what a ValueError out of parse_ts(ev.ts) does inside the try block: the
\* except clause names json.JSONDecodeError only, so it propagates
on_ts_ValueError(strict_, n) == Raise("InvalidTimestamp", n)

\* the timestamp range filter applied to a built Event
time_filter(ev, n, strict_, sdt, udt) ==
    IF sdt # NoDt \/ udt # NoDt
    THEN IF ev.ts = EmptyStr
         THEN Continue
         ELSE LET p == parse_ts(ev.ts)
              IN  IF ~p.ok THEN on_ts_ValueError(strict_, n)
                  ELSE IF in_range(p.dt, sdt, udt) THEN Yield(ev) ELSE Continue
    ELSE Yield(ev)

\* one iteration of `for line_no, line in enumerate(f, start=1)`
loop_body(line, n, strict_, sdt, udt) ==
    CASE line.kind = "blank" -> Continue
      [] line.kind = "bad" -> on_JSONDecodeError(strict_, n)
      [] line.kind = "scalar" -> Raise("AttributeError", n)
      [] OTHER -> time_filter(Event(line.obj), n, strict_, sdt, udt)

\* faulty variant: the event is appended to a list and the loop goes on
after_yield_eager == "running"

\* the generator's position after `yield ev`
after_yield == "suspended"

\* faulty variant: a bare open() without the with block
with_exit_leak(h) == h

\* leaving the `with open(...)` block, by whatever path, closes the file
with_exit(h) == IF h = "open" THEN "closed" ELSE h

\* first next(): parse the bounds, then open the file
Start ==
    /\ pc = "created"
    /\ LET s == IF Truthy(since) THEN parse_ts(since) ELSE [ok |-> TRUE, dt |-> 0]
           u == IF Truthy(until) THEN parse_ts(until) ELSE [ok |-> TRUE, dt |-> 0]
       IN  IF ~s.ok \/ ~u.ok
           THEN /\ pc' = "failed"
                /\ error' = [kind |-> "InvalidTimestamp", line |-> 0]
                /\ since_dt' = IF s.ok /\ Truthy(since) THEN <<s.dt>> ELSE NoDt
                /\ UNCHANGED <<until_dt, handle, opens>>
           ELSE /\ since_dt' = IF Truthy(since) THEN <<s.dt>> ELSE NoDt
                /\ until_dt' = IF Truthy(until) THEN <<u.dt>> ELSE NoDt
                /\ \/ /\ pc' = "running"
                      /\ handle' = "open"
                      /\ opens' = opens + 1
                      /\ UNCHANGED error
                   \/ /\ pc' = "failed"
                      /\ error' = [kind |-> "OSError", line |-> 0]
                      /\ UNCHANGED <<handle, opens>>
    /\ pulls' = pulls + 1
    /\ UNCHANGED <<file, strict, since, until, line_no, out, aggVars>>

\* the for loop takes the next line, or ends at end of file
Step ==
    /\ pc = "running"
    /\ IF line_no = Len(file)
       THEN /\ pc' = "done"
            /\ handle' = with_exit(handle)
            /\ UNCHANGED <<line_no, out, error>>
       ELSE LET n == line_no + 1
                o == loop_body(file[n], n, strict, since_dt, until_dt)
            IN  /\ line_no' = n
                /\ CASE o.act = "continue" ->
                          /\ UNCHANGED <<pc, handle, out, error>>
                     [] o.act = "yield" ->
                          /\ pc' = after_yield
                          /\ out' = Append(out, [line_no |-> n, ev |-> o.ev])
                          /\ UNCHANGED <<handle, error>>
                     [] OTHER ->
                          /\ pc' = "failed"
                          /\ error' = o.error
                          /\ handle' = with_exit(handle)
                          /\ UNCHANGED out
    /\ UNCHANGED <<file, strict, since, until, since_dt, until_dt, opens, pulls,
                   aggVars>>

\* the consumer asks for the next item
Pull ==
    /\ pc = "suspended"
    /\ pc' = "running"
    /\ pulls' = pulls + 1
    /\ UNCHANGED <<file, strict, since, until, since_dt, until_dt, line_no,
                   handle, opens, out, error, aggVars>>

\* the consumer abandons the sequence: generator.close() raises GeneratorExit
\* at the yield (or, before the first next(), just marks it finished)
Close ==
    /\ pc \in {"created", "suspended"}
    /\ pc' = "closed"
    /\ handle' = with_exit(handle)
    /\ UNCHANGED <<file, strict, since, until, since_dt, until_dt, line_no,
                   opens, pulls, out, error, aggVars>>

\* ------------------------------------------------------------ aggregators
\* needle = contains.lower() if contains else None
needle_of(contains) == IF Truthy(contains) THEN lower(contains) ELSE None

\* `if needle and needle not in ev.msg.lower(): continue`
skipped_by_needle(needle, ev) == Truthy(needle) /\ ~In(needle, lower(ev.msg))

\* counts[k] = counts.get(k, 0) + 1 on a dict, kept in insertion order as
\* <<key, count>> pairs
dict_incr(counts, k) ==
    IF \E i \in 1..Len(counts) : counts[i][1] = k
    THEN [i \in 1..Len(counts) |->
             IF counts[i][1] = k THEN <<k, counts[i][2] + 1>> ELSE counts[i]]
    ELSE Append(counts, <<k, 1>>)

\* the loop `for ev in events:` that tallies ev.src_ip under the needle
RECURSIVE count_src_ips(_, _)
count_src_ips(evs, needle) ==
    IF evs = <<>> THEN <<>>
    ELSE LET counts == count_src_ips(SubSeq(evs, 1, Len(evs) - 1), needle)
             ev == evs[Len(evs)]
         IN  IF skipped_by_needle(needle, ev) THEN counts
             ELSE dict_incr(counts, ev.src_ip)

\* faulty variant: the sort without reverse=True
insert_asc(sorted, kv) ==
    LET before == {i \in 1..Len(sorted) : sorted[i][2] <= kv[2]}
        k == Cardinality(before)
    IN  SubSeq(sorted, 1, k) \o <<kv>> \o SubSeq(sorted, k + 1, Len(sorted))

\* where a stable descending sort puts an item: after every item whose
\* count is at least its own
insert_desc(sorted, kv) ==
    LET before == {i \in 1..Len(sorted) : sorted[i][2] >= kv[2]}
        k == Cardinality(before)
    IN  SubSeq(sorted, 1, k) \o <<kv>> \o SubSeq(sorted, k + 1, Len(sorted))

\* sorted(items, key=lambda kv: kv[1], reverse=True)
RECURSIVE sorted_desc(_)
sorted_desc(items) ==
    IF items = <<>> THEN <<>>
    ELSE insert_desc(sorted_desc(SubSeq(items, 1, Len(items) - 1)), items[Len(items)])

\* the slice seq[:n]
slice_to(seq, n) ==
    IF n >= 0
    THEN SubSeq(seq, 1, IF n < Len(seq) THEN n ELSE Len(seq))
    ELSE SubSeq(seq, 1, IF Len(seq) + n > 0 THEN Len(seq) + n ELSE 0)

top_src_ips(evs, n, contains) ==
    slice_to(sorted_desc(count_src_ips(evs, needle_of(contains))), n)

\* count_by_level as committed.  Its body is the body of top_src_ips up to
\* the tally (lines 159-174), a second loop that only filters on src_ip
\* (lines 179-183), and then the body of parse_ts (line 207), where `ts` is
\* unbound; the `continue` of line 213 is outside any loop.  Whichever way the
\* text is run, the call raises and `return counts` (line 220) is never
\* reached with a per-level tally: counts holds what the first loop tallied.
count_by_level(evs, src_ip, contains) ==
    LET needle == needle_of(contains)
        counts == count_src_ips(evs, needle)
    IN  [raised |-> TRUE, value |-> <<>>, counts |-> counts]

Returned(v) == [raised |-> FALSE, value |-> v, counts |-> <<>>]

\* the events handed to the consumer, in order
EventsOf(o) == [i \in 1..Len(o) |-> o[i].ev]

\* count_by_level(iter_events(path, ...)) with no src_ip / contains: the
\* aggregator has drained the stream and finishes
CountStream ==
    /\ pc = "done"
    /\ call.fn = "none"
    /\ call' = [fn |-> "count_by_level", src_ip |-> None, contains |-> None, n |-> 0]
    /\ result' = count_by_level(EventsOf(out), None, None)
    /\ UNCHANGED <<streamVars, events>>

\* ------------------------------------------------------- the stream system
Init ==
    /\ file \in Files
    /\ strict \in BOOLEAN
    /\ since \in SinceArgs
    /\ until \in UntilArgs
    /\ pc = "created"
    /\ since_dt = NoDt
    /\ until_dt = NoDt
    /\ line_no = 0
    /\ handle = "none"
    /\ opens = 0
    /\ pulls = 0
    /\ out = <<>>
    /\ error = NoError
    /\ events = <<>>
    /\ call = NoCall
    /\ result = NoResult

Next == Start \/ Step \/ Pull \/ Close \/ CountStream

Spec == Init /\ [][Next]_vars

\* --------------------------------------------------- the aggregator system
AggEvents ==
    { [ts |-> EmptyStr, level |-> INFO, msg |-> <<"b", "A">>, src_ip |-> Ip1],
      [ts |-> EmptyStr, level |-> WARN, msg |-> <<"b">>, src_ip |-> Ip1],
      [ts |-> EmptyStr, level |-> INFO, msg |-> <<"b">>, src_ip |-> Ip2],
      [ts |-> EmptyStr, level |-> WARN, msg |-> <<"A", "b">>, src_ip |-> Ip2],
      [ts |-> EmptyStr, level |-> WARN, msg |-> <<"b", "A">>, src_ip |-> EmptyStr],
      [ts |-> EmptyStr, level |-> UNKNOWN, msg |-> EmptyStr, src_ip |-> EmptyStr] }

EventLists == UNION {[1..k -> AggEvents] : k \in 0..MaxEvents}
ContainsArgs == {None, EmptyStr, <<"A">>}
SrcIpArgs == {None, EmptyStr, Ip1}
NArgs == (0 - MaxN)..MaxN

CallCountByLevel ==
    /\ call.fn = "none"
    /\ \E a \in SrcIpArgs, c \in ContainsArgs :
          /\ call' = [fn |-> "count_by_level", src_ip |-> a, contains |-> c, n |-> 0]
          /\ result' = count_by_level(events, a, c)
    /\ UNCHANGED <<streamVars, events>>

CallTopSrcIps ==
    /\ call.fn = "none"
    /\ \E k \in NArgs, c \in ContainsArgs :
          /\ call' = [fn |-> "top_src_ips", src_ip |-> None, contains |-> c, n |-> k]
          /\ result' = Returned(top_src_ips(events, k, c))
    /\ UNCHANGED <<streamVars, events>>

InitAgg ==
    /\ events \in EventLists
    /\ call = NoCall
    /\ result = NoResult
    /\ file = <<>>
    /\ strict = FALSE
    /\ since = None
    /\ until = None
    /\ pc = "created"
    /\ since_dt = NoDt
    /\ until_dt = NoDt
    /\ line_no = 0
    /\ handle = "none"
    /\ opens = 0
    /\ pulls = 0
    /\ out = <<>>
    /\ error = NoError

NextAgg == CallCountByLevel \/ CallTopSrcIps

SpecAgg == InitAgg /\ [][NextAgg]_vars

\* ================================================================ claims
\* reference definitions, stated from the claims and not from the code

\* msg contains the text, compared case-insensitively
MatchesCI(text, msg) ==
    \E i \in 0..(Len(msg) - Len(text)) :
        \A j \in 1..Len(text) : lowerTok(msg[i + j]) = lowerTok(text[j])

\* the input events that survive the filters of the call made
Surviving ==
    {k \in 1..Len(events) :
        /\ (call.src_ip # None => events[k].src_ip = call.src_ip)
        /\ (call.contains # None => MatchesCI(call.contains, events[k].msg))}

LevelsSeen == {events[k].level : k \in Surviving}
SrcIpsSeen == {events[k].src_ip : k \in Surviving}
LevelCount(lvl) == Cardinality({k \in Surviving : events[k].level = lvl})
SrcIpCount(ip) == Cardinality({k \in Surviving : events[k].src_ip = ip})

\* a list of <<key, count>> pairs read as a mapping
Keys(pairs) == {pairs[i][1] : i \in 1..Len(pairs)}
IsMapping(pairs) ==
    \A i, j \in 1..Len(pairs) : pairs[i][1] = pairs[j][1] => i = j

Min(a, b) == IF a < b THEN a ELSE b

\* C1: count_by_level returns the mapping level -> number of input events
\* of that level that pass the src_ip filter (exact) and the contains filter
\* (case-insensitive), with no entry for a level without surviving events.
C1_CountByLevelExact ==
    call.fn = "count_by_level" =>
        /\ ~result.raised
        /\ IsMapping(result.value)
        /\ Keys(result.value) = LevelsSeen
        /\ \A i \in 1..Len(result.value) :
              result.value[i][2] = LevelCount(result.value[i][1])

\* C4: every pair (ip, c) of top_src_ips has c = the number of events of
\* that src_ip passing the contains filter ("" an ordinary bucket), the pairs
\* are in non-increasing order of c, and no src_ip left out has a count
\* strictly greater than a returned one.
C4_TopSrcIpsRanked ==
    call.fn = "top_src_ips" =>
        LET r == result.value
        IN  /\ ~result.raised
            /\ IsMapping(r)
            /\ \A i \in 1..Len(r) : r[i][1] \in SrcIpsSeen /\ r[i][2] = SrcIpCount(r[i][1])
            /\ \A i, j \in 1..Len(r) : i < j => r[i][2] >= r[j][2]
            /\ \A ip \in SrcIpsSeen \ Keys(r) :
                  \A i \in 1..Len(r) : SrcIpCount(ip) <= r[i][2]

\* C4 witness: a filtered ranking headed by the "" bucket, with a source
\* left out and an event removed by the contains filter
C4_Witness ==
    /\ call.fn = "top_src_ips"
    /\ call.contains = <<"A">>
    /\ call.n = 1
    /\ result.value = <<<<EmptyStr, 2>>>>
    /\ SrcIpsSeen \ Keys(result.value) # {}
    /\ Cardinality(Surviving) < Len(events)

\* C5: top_src_ips returns min(n, number of distinct src_ips among the
\* surviving events) pairs when n > 0 and the empty list whenever n <= 0.
C5_TopSrcIpsLength ==
    call.fn = "top_src_ips" =>
        Len(result.value) =
            IF call.n > 0 THEN Min(call.n, Cardinality(SrcIpsSeen)) ELSE 0

\* ------------------------------------------------ claims about the stream
\* the UTC instant an ISO-8601 text denotes, for the texts in use; any other
\* text is not a timestamp
IsTimestamp(ts) ==
    ts \in {<<"T1", "Z">>, <<"T2", "Z">>, <<"T3", "Z">>, <<"T3", "+01:00">>}
UtcInstant(ts) ==
    CASE ts = <<"T1", "Z">> -> 1
      [] ts = <<"T2", "Z">> -> 2
      [] ts = <<"T3", "+01:00">> -> 2
      [] ts = <<"T3", "Z">> -> 3
      [] OTHER -> 0

\* a bound counts as supplied when it is a non-empty string
SinceGiven == since # None /\ since # EmptyStr
UntilGiven == until # None /\ until # EmptyStr
TimeFilterActive == SinceGiven \/ UntilGiven

IsObject(k) == file[k].kind = "object"
IsBadJson(k) == file[k].kind = "bad"
IsValidJson(k) == file[k].kind \in {"object", "scalar"}
TsOf(k) == Event(file[k].obj).ts

YieldedLines == {out[i].line_no : i \in 1..Len(out)}
Terminal == pc \in {"done", "failed", "closed"}

\* C2: count_by_level(iter_events(path)) without filters returns a mapping
\* whose values sum to the number of non-blank, JSON-valid lines of the file.
RECURSIVE SumCounts(_)
SumCounts(pairs) ==
    IF pairs = <<>> THEN 0
    ELSE pairs[Len(pairs)][2] + SumCounts(SubSeq(pairs, 1, Len(pairs) - 1))

C2_CountsSumToValidLines ==
    (call.fn = "count_by_level" /\ since = None /\ until = None
        /\ \A k \in 1..Len(file) : file[k].kind # "scalar") =>
        /\ ~result.raised
        /\ SumCounts(result.value) = Cardinality({k \in 1..Len(file) : IsValidJson(k)})

\* C3: in lenient mode a line that is not valid JSON is skipped and the
\* iteration goes on; in strict mode the first such line ends the pass, no
\* later line yields an event, and the error carries that line's 1-based
\* number, blank lines counted.
C3_MalformedLinePolicy ==
    /\ \A k \in 1..line_no : IsBadJson(k) =>
          /\ k \notin YieldedLines
          /\ IF strict
             THEN /\ pc = "failed"
                  /\ error = [kind |-> "BadJSON", line |-> k]
                  /\ line_no = k
                  /\ \A j \in YieldedLines : j < k
             ELSE ~(pc = "failed" /\ error.line = k)
    /\ error.kind = "BadJSON" =>
          strict /\ error.line \in 1..Len(file) /\ IsBadJson(error.line)

\* C3 witness: strict mode, a blank line before the malformed one, an event
\* line after it
C3_Witness ==
    /\ strict
    /\ Len(file) = 3
    /\ file[1].kind = "blank"
    /\ IsBadJson(2)
    /\ IsObject(3)
    /\ pc = "failed"
    /\ error = [kind |-> "BadJSON", line |-> 2]

\* C6: with a bound supplied, the yielded events are exactly the decoded
\* events with a non-empty ts whose UTC instant lies within the bounds (both
\* inclusive), in file order; with none supplied every decoded event is
\* yielded, those with an empty ts included.
InBounds(k) ==
    IF TimeFilterActive
    THEN /\ TsOf(k) # EmptyStr
         /\ IsTimestamp(TsOf(k))
         /\ (SinceGiven => UtcInstant(since) <= UtcInstant(TsOf(k)))
         /\ (UntilGiven => UtcInstant(TsOf(k)) <= UtcInstant(until))
    ELSE TRUE

C6_TimeFilterExact ==
    /\ YieldedLines = {k \in 1..line_no : IsObject(k) /\ InBounds(k)}
    /\ \A i \in 1..Len(out) : out[i].ev = Event(file[out[i].line_no].obj)
    /\ \A i, j \in 1..Len(out) : i < j => out[i].line_no < out[j].line_no

\* C6 witness: both bounds supplied, a pass that ran to the end, an event at
\* the bound kept (its offset normalised), one before the bound and one with
\* an empty ts dropped
C6_Witness ==
    /\ pc = "done"
    /\ SinceGiven /\ UntilGiven
    /\ Len(file) = 3
    /\ \A k \in 1..3 : IsObject(k)
    /\ TsOf(1) = <<"T1", "Z">>
    /\ TsOf(2) = <<"T3", "+01:00">>
    /\ TsOf(3) = EmptyStr
    /\ YieldedLines = {2}

\* C7: an unparsable timestamp ends the pass in either mode: an unparsable
\* since / until fails before any line is read, and with a time filter active
\* the first decoded event whose non-empty ts is unparsable ends the pass
\* there, so no later line yields an event.
ArgUnparsable ==
    \/ (SinceGiven /\ ~IsTimestamp(since))
    \/ (UntilGiven /\ ~IsTimestamp(until))

C7_InvalidTimestampFatal ==
    /\ ArgUnparsable =>
          /\ line_no = 0 /\ out = <<>> /\ handle = "none"
          /\ pc \in {"created", "closed", "failed"}
          /\ pc = "failed" => error = [kind |-> "InvalidTimestamp", line |-> 0]
    /\ TimeFilterActive =>
          \A k \in 1..line_no :
              (IsObject(k) /\ TsOf(k) # EmptyStr /\ ~IsTimestamp(TsOf(k))) =>
                  /\ pc = "failed"
                  /\ error = [kind |-> "InvalidTimestamp", line |-> k]
                  /\ line_no = k
                  /\ \A j \in YieldedLines : j < k

\* C7 witness: lenient mode, an event yielded, then an event with an
\* unparsable ts ends the pass with a line still unread
C7_Witness ==
    /\ ~strict
    /\ TimeFilterActive
    /\ Len(file) = 3
    /\ IsObject(3)
    /\ Len(out) = 1
    /\ pc = "failed"
    /\ error = [kind |-> "InvalidTimestamp", line |-> 2]

\* C8 as stated: a pass (a sequence asked for at least one item) opens
\* exactly one file handle and it is closed in every terminal state of the
\* pass: end of file, the consumer closing the sequence, a strict
\* malformed-JSON failure, an invalid-timestamp failure.
C8_ExactlyOneHandleClosed ==
    (/\ pulls > 0
     /\ \/ pc \in {"done", "closed"}
        \/ (pc = "failed" /\ error.kind \in {"BadJSON", "InvalidTimestamp"})) =>
        (opens = 1 /\ handle = "closed")

\* C8 as amended: a pass opens at most one file handle - none when it ends
\* before the file is opened - and an opened handle is closed in every
\* terminal state; once a line has been read exactly one handle was opened.
C8_AtMostOneHandleClosed ==
    /\ opens <= 1
    /\ (opens = 0) = (handle = "none")
    /\ Terminal => handle # "open"
    /\ (line_no > 0 \/ pc \in {"running", "suspended", "done"}) => opens = 1
    /\ (pc \in {"running", "suspended"}) => handle = "open"

\* C8 witness: the consumer abandoned the sequence with lines unread and the
\* handle is closed
C8_Witness ==
    /\ pc = "closed"
    /\ opens = 1
    /\ handle = "closed"
    /\ line_no < Len(file)
    /\ Len(out) = 1

\* C9: in lenient mode every non-blank line that is valid JSON, whatever its
\* shape, is processed without raising and yields an Event of four strings
\* with absent members defaulted.
C9_ShapeTolerant ==
    (~strict /\ since = None /\ until = None) =>
        /\ \A k \in 1..line_no :
              IsValidJson(k) => (k \in YieldedLines /\ error.line # k)
        /\ \A i \in 1..Len(out) :
              file[out[i].line_no].obj = NoObj =>
                  out[i].ev = [ts |-> EmptyStr, level |-> UNKNOWN,
                               msg |-> EmptyStr, src_ip |-> EmptyStr]

\* C10: the generator reads lines only to serve an outstanding request of
\* the consumer: when an event of line k is handed over no later line has
\* been read, and after the consumer abandons the sequence the lines after
\* the last event handed over stay unread and raise nothing.
C10_PullDriven ==
    /\ Len(out) <= pulls
    /\ pc = "running" => Len(out) = pulls - 1
    /\ pc = "suspended" =>
          Len(out) = pulls /\ line_no = out[Len(out)].line_no
    /\ pc = "closed" =>
          /\ error = NoError
          /\ line_no = IF out = <<>> THEN 0 ELSE out[Len(out)].line_no

\* C10 witness: strict mode, the consumer stopped after the first event and
\* the malformed line behind it was never read
C10_Witness ==
    /\ strict
    /\ pc = "closed"
    /\ Len(out) = 1
    /\ line_no = 1
    /\ Len(file) = 3
    /\ IsBadJson(2)


\* ------------------------------------------- claims about empty arguments
\* the input events that survive the call's filters when an empty-string
\* argument counts as an absent one
SurvivingEmptyAbsent ==
    {k \in 1..Len(events) :
        /\ ((call.src_ip # None /\ call.src_ip # EmptyStr) =>
               events[k].src_ip = call.src_ip)
        /\ ((call.contains # None /\ call.contains # EmptyStr) =>
               MatchesCI(call.contains, events[k].msg))}

LevelCountEmptyAbsent(lvl) ==
    Cardinality({k \in SurvivingEmptyAbsent : events[k].level = lvl})

\* the part of C11 about top_src_ips: with contains = "" the list is the one
\* returned with contains omitted
C11_TopSrcIpsEmptyContains ==
    (call.fn = "top_src_ips" /\ call.contains = EmptyStr) =>
        /\ ~result.raised
        /\ result.value = top_src_ips(events, call.n, None)
        /\ \A i \in 1..Len(result.value) :
              result.value[i][2] =
                  Cardinality({k \in 1..Len(events) :
                                  events[k].src_ip = result.value[i][1]})

\* C11: an empty-string argument behaves as an absent one: count_by_level
\* with src_ip = "" or contains = "" returns the mapping it returns with that
\* argument omitted (so src_ip = "" does not select the "" bucket), and
\* top_src_ips with contains = "" returns the list it returns with contains
\* omitted.
C11_EmptyArgIsAbsent ==
    /\ (call.fn = "count_by_level"
            /\ (call.src_ip = EmptyStr \/ call.contains = EmptyStr)) =>
          /\ ~result.raised
          /\ IsMapping(result.value)
          /\ Keys(result.value) = {events[k].level : k \in SurvivingEmptyAbsent}
          /\ \A i \in 1..Len(result.value) :
                result.value[i][2] = LevelCountEmptyAbsent(result.value[i][1])
    /\ C11_TopSrcIpsEmptyContains

\* the part of C11 about iter_events: since = "" or until = "" sets no bound
\* and raises no timestamp error of its own; the pass is the one made with
\* that argument omitted
C11_StreamEmptyBound ==
    (since = EmptyStr \/ until = EmptyStr) =>
        /\ (since = EmptyStr => since_dt = NoDt)
        /\ (until = EmptyStr => until_dt = NoDt)
        /\ YieldedLines = {k \in 1..line_no : IsObject(k) /\ InBounds(k)}
        /\ (~SinceGiven /\ ~UntilGiven) =>
              /\ error.kind # "InvalidTimestamp"
              /\ YieldedLines = {k \in 1..line_no : IsObject(k)}
        /\ (error.kind = "InvalidTimestamp" /\ error.line = 0) => ArgUnparsable

\* an empty since with lines whose ts is empty or unparsable, all yielded
C11_StreamWitness ==
    /\ since = EmptyStr
    /\ until = None
    /\ pc = "done"
    /\ Len(file) = 2
    /\ IsObject(1) /\ TsOf(1) = EmptyStr
    /\ IsObject(2) /\ TsOf(2) = <<"N", "o", "n", "e">>
    /\ YieldedLines = {1, 2}

====
